---- MODULE Spec2Model ----
(***************************************************************************)
(* satsuki: the function table of an Executable (src/lib.rs), its three    *)
(* constructors, the byte matcher Function::compute_raw_diff, the pairwise *)
(* statistics, and the global aggregate of the stats and badge commands    *)
(* (src/bin/satsuki.rs).                                                   *)
(***************************************************************************)
EXTENDS Integers, Sequences, FiniteSets, TLC

(***************************************************************************)
(* Vec<u8>.  A byte vector is kept run-length encoded: a sequence of runs  *)
(* [byte, count] with count >= 1 and adjacent runs of different bytes, so  *)
(* that equal vectors are equal values and a vector of 2^24 bytes is a     *)
(* value TLC can hold.                                                     *)
(***************************************************************************)
Run(b, c) == [byte |-> b, count |-> c]

RECURSIVE VecLen(_)
VecLen(v) == IF v = <<>> THEN 0 ELSE Head(v).count + VecLen(Tail(v))

RECURSIVE VecDrop(_, _)
VecDrop(v, k) ==
    IF k = 0 \/ v = <<>> THEN v
    ELSE IF Head(v).count <= k THEN VecDrop(Tail(v), k - Head(v).count)
    ELSE <<Run(Head(v).byte, Head(v).count - k)>> \o Tail(v)

RECURSIVE VecTake(_, _)
VecTake(v, k) ==
    IF k = 0 \/ v = <<>> THEN <<>>
    ELSE IF Head(v).count <= k THEN <<Head(v)>> \o VecTake(Tail(v), k - Head(v).count)
    ELSE <<Run(Head(v).byte, k)>>

\* v.get(idx): <<byte>> for Some(byte), <<>> for None (idx past the end)
VecGet(v, idx) ==
    LET rest == VecDrop(v, idx) IN IF rest = <<>> THEN <<>> ELSE <<Head(rest).byte>>

\* a slice that is cut at the end of the vector where the range passes it
VecSlice_truncating(v, start, end) ==
    [panic |-> FALSE,
     data |-> IF start >= end THEN <<>> ELSE VecTake(VecDrop(v, start), end - start)]

\* &v[start..end].to_vec(): panics when start > end or end > v.len()
VecSlice(v, start, end) ==
    IF start > end \/ end > VecLen(v)
    THEN [panic |-> TRUE, data |-> <<>>]
    ELSE [panic |-> FALSE, data |-> VecTake(VecDrop(v, start), end - start)]

\* the vectors of the given bytes with one or two runs of the given lengths
VecsOver(bytes, lens) ==
    {<<Run(b, c)>> : b \in bytes, c \in lens}
    \cup {<<Run(p[1], c1), Run(p[2], c2)>> :
            p \in {q \in bytes \X bytes : q[1] # q[2]}, c1 \in lens, c2 \in lens}

(***************************************************************************)
(* f32.  A value is NaN, +0, or m * 2^e with 2^23 <= m < 2^24 (every value *)
(* the program computes is non-negative and far from the subnormals).      *)
(* Every operation rounds to nearest, ties to even, as IEEE 754 does.      *)
(***************************************************************************)
F32Bits == 24
F32Lo == 2 ^ (F32Bits - 1)
F32Hi == 2 ^ F32Bits

F32NaN == [cls |-> "nan", m |-> 0, e |-> 0]
F32Inf == [cls |-> "inf", m |-> 0, e |-> 0]
F32Zero == [cls |-> "zero", m |-> 0, e |-> 0]
F32Fin(m, e) == [cls |-> "fin", m |-> m, e |-> e]

\* the number of bits of k > 0
RECURSIVE BitLen(_)
BitLen(k) == IF k = 0 THEN 0 ELSE 1 + BitLen(k \div 2)

\* k * 2^e (k > 0) rounded to 24 significant bits; sticky says that bits below k
\* were already dropped, so that a remainder of exactly half is no tie
F32Round(k, e, sticky) ==
    LET n == BitLen(k) IN
    IF n <= F32Bits THEN F32Fin(k * 2 ^ (F32Bits - n), e - (F32Bits - n))
    ELSE LET s == n - F32Bits
             q == k \div 2 ^ s
             r == k % 2 ^ s
             half == 2 ^ (s - 1)
             up == r > half \/ (r = half /\ (sticky \/ q % 2 = 1))
             q1 == IF up THEN q + 1 ELSE q
         IN  IF q1 = F32Hi THEN F32Fin(F32Lo, e + s + 1) ELSE F32Fin(q1, e + s)

\* `k as f32` for an integer k >= 0
F32FromNat(k) == IF k = 0 THEN F32Zero ELSE F32Round(k, 0, FALSE)

\* floor(num * 2^bits / den) and whether the division left a remainder
RECURSIVE LongDiv(_, _, _, _)
LongDiv(q, r, den, bits) ==
    IF bits = 0 THEN [q |-> q, inexact |-> r # 0]
    ELSE LongDiv(2 * q + ((2 * r) \div den), (2 * r) % den, den, bits - 1)

\* x / y
F32Div(x, y) ==
    IF x.cls = "nan" \/ y.cls = "nan" THEN F32NaN
    ELSE IF x.cls = "inf" THEN (IF y.cls = "inf" THEN F32NaN ELSE F32Inf)
    ELSE IF y.cls = "inf" THEN F32Zero
    ELSE IF y.cls = "zero" THEN (IF x.cls = "zero" THEN F32NaN ELSE F32Inf)
    ELSE IF x.cls = "zero" THEN F32Zero
    ELSE LET d == LongDiv(x.m \div y.m, x.m % y.m, y.m, F32Bits + 2)
         IN  F32Round(d.q, x.e - y.e - (F32Bits + 2), d.inexact)

\* x * 100.0 (100.0 is 25 * 2^2)
F32Mul100(x) ==
    IF x.cls = "fin" THEN F32Round(x.m * 25, x.e + 2, FALSE) ELSE x

\* x + y
F32Add(x, y) ==
    IF x.cls = "nan" \/ y.cls = "nan" THEN F32NaN
    ELSE IF x.cls = "inf" \/ y.cls = "inf" THEN F32Inf
    ELSE IF x.cls = "zero" THEN y
    ELSE IF y.cls = "zero" THEN x
    ELSE LET hi == IF x.e >= y.e THEN x ELSE y
             lo == IF x.e >= y.e THEN y ELSE x
             d == hi.e - lo.e
             lo8 == lo.m * 8
             sh == IF d > F32Bits + 3 THEN 0 ELSE lo8 \div 2 ^ d
             lost == IF d > F32Bits + 3 THEN TRUE ELSE lo8 % 2 ^ d # 0
         IN  F32Round(hi.m * 8 + sh, hi.e - 3, lost)

F32Hundred == F32Fin(25 * 2 ^ 19, -17)

\* x < y for two values that are not NaN
F32Less(x, y) ==
    IF x.cls = "nan" \/ y.cls = "nan" THEN FALSE
    ELSE IF x.cls = "inf" THEN FALSE
    ELSE IF y.cls = "inf" THEN TRUE
    ELSE IF y.cls = "zero" THEN FALSE
    ELSE IF x.cls = "zero" THEN TRUE
    ELSE x.e < y.e \/ (x.e = y.e /\ x.m < y.m)

(***************************************************************************)
(* The state.                                                              *)
(***************************************************************************)
VARIABLES
    \* construction of an Executable
    ctor,        \* the constructor that was called
    text,        \* section_by_name(".text"): "absent", "present" or "unreadable"
    symbols,     \* raw_obj.symbols(), in iteration order
    sym_idx,     \* position of the primary pass in symbols (0: iterator dropped)
    mapping,     \* mapping.function (None and Some(vec![]) alike: <<>>)
    map_idx,     \* position of the mapping pass in mapping
    phase,       \* "primary", "procedures", "publics", "with_mapping", "mapping", "done"
    functions,   \* res.functions: name -> Function
    add_ret,     \* what the latest call of add_function returned
    result,      \* what the constructor returned (or that it panicked)
    primary,     \* history: res.functions as from_object returned it
    proc_seen,   \* history: names of the PDB procedures iterated so far
    proc_nz,     \* history: those of them with a nonzero length
    \* Executable::add_function called on a table
    api_args,    \* the arguments of the latest call
    \* Function::compute_raw_diff
    diff_pc, self_data, other_data, diff_ret,
    \* the stats and badge commands
    cmd_pc, cmd, original, reimpl, stats, pending, global_match, global_raw_diff,
    \* Function::format_instruction
    fmt_pc,      \* "idle", "call", "returned" or "panicked"
    fmt_in,      \* self, the executable, the flags and the decoded instruction
    fmt_out      \* the String returned, as the pieces written to it

build_vars == <<ctor, text, symbols, sym_idx, mapping, map_idx, phase, functions,
                add_ret, result, primary, proc_seen, proc_nz>>
diff_vars == <<diff_pc, self_data, other_data, diff_ret>>
cmd_vars == <<cmd_pc, cmd, original, reimpl, stats, pending, global_match,
              global_raw_diff>>
fmt_vars == <<fmt_pc, fmt_in, fmt_out>>
vars == <<build_vars, api_args, diff_vars, cmd_vars, fmt_vars>>

(***************************************************************************)
(* Bounds of the model and the inputs drawn within them.                   *)
(***************************************************************************)
TextBase == 4
MaxSymbols == 2
MaxMapping == 2

Names == {"f", "g"}
\* the .text section: two distinct bytes loaded at TextBase
TextData == <<Run(1, 1), Run(2, 1)>>
TextLen == VecLen(TextData)
Addresses == (TextBase - 1)..(TextBase + 1)
Sizes == 0..TextLen
Offsets == 0..1

SeqsUpTo(S, n) == UNION {[1..k -> S] : k \in 0..n}

\* a symbol of the object file
ObjSymbols ==
    [name : Names, kind : {"Text"}, address : Addresses, size : Sizes]
    \cup [name : Names, kind : {"Data"}, address : {TextBase}, size : {1}]
\* a FunctionDef of the mapping; name is <<>> for None, <<n>> for Some(n)
FunctionDefs ==
    [name : {<<n>> : n \in Names}, address : Addresses, size : Sizes]
    \cup [name : {<<>>}, address : {TextBase + 1}, size : {1, TextLen}]
\* from_object_with_pdb reads the name and the size of a FunctionDef only
\* (l.277): its mapping is drawn with one address
PdbFunctionDefs ==
    [name : {<<n>> : n \in Names}, address : {TextBase}, size : Sizes]
    \cup [name : {<<>>}, address : {TextBase}, size : {1}]
\* a ProcedureSymbol of a PDB module, a PublicSymbol of the PDB's global table
ProcedureSymbols == [name : Names, offset : Offsets, len : Sizes]
PublicSymbols == [name : Names, offset : Offsets, function : BOOLEAN]

(***************************************************************************)
(* Executable.                                                             *)
(***************************************************************************)
Function(name, address, data) == [name |-> name, address |-> address, data |-> data]

NoFunctions == <<>>

Ret(kind, name) == [kind |-> kind, function_name |-> name]
Pending == Ret("Pending", "")
Ok == Ret("Ok", "")
Panic == Ret("Panic", "")
ObjectError == Ret("ObjectError", "")
PdbError == Ret("PdbError", "")
FunctionNameConflict(name) == Ret("FunctionNameConflict", name)
NotCalled == Ret("NotCalled", "")

\* add_function without its contains_key check: HashMap::insert replaces the entry
add_function_overwrite(fns, name, address, data) ==
    [ret |-> Ok,
     functions |-> [n \in DOMAIN fns \cup {name} |->
                       IF n = name THEN Function(name, address, data) ELSE fns[n]]]

\* add_function checking for the conflict only after the insert
add_function_insert_first(fns, name, address, data) ==
    [ret |-> IF name \in DOMAIN fns THEN FunctionNameConflict(name) ELSE Ok,
     functions |-> [n \in DOMAIN fns \cup {name} |->
                       IF n = name THEN Function(name, address, data) ELSE fns[n]]]

\* Executable::add_function: the value returned and the table afterwards
add_function(fns, name, address, data) ==
    IF name \in DOMAIN fns
    THEN [ret |-> FunctionNameConflict(name), functions |-> fns]
    ELSE [ret |-> Ok,
          functions |-> [n \in DOMAIN fns \cup {name} |->
                            IF n = name THEN Function(name, address, data) ELSE fns[n]]]

functions_count(fns) == Cardinality(DOMAIN fns)

\* let offset = address - text_section_address; text_data[offset..offset + size]:
\* an address below the section base overflows the subtraction (a panic in a
\* debug build; in a release build the offset wraps to at least 2^64 - base and
\* the slice's range check panics)
slice_at(text_section_address, text_data, address, size) ==
    IF address < text_section_address
    THEN [panic |-> TRUE, data |-> <<>>]
    ELSE VecSlice(text_data, address - text_section_address,
                  address - text_section_address + size)

\* add_function_from_pdb replacing the entry of a name that is already known
add_function_from_pdb_replace(fns, text_section_address, text_data, name, offset, len) ==
    IF len = 0
    THEN [panic |-> FALSE, ret |-> NotCalled, functions |-> fns]
    ELSE LET sl == VecSlice(text_data, offset, offset + len) IN
         IF sl.panic
         THEN [panic |-> TRUE, ret |-> NotCalled, functions |-> fns]
         ELSE LET r == add_function_overwrite(fns, name, text_section_address + offset,
                                              sl.data)
              IN  [panic |-> FALSE,
                   ret |-> IF name \in DOMAIN fns THEN FunctionNameConflict(name) ELSE Ok,
                   functions |-> r.functions]

\* Executable::add_function_from_pdb
add_function_from_pdb(fns, text_section_address, text_data, name, offset, len) ==
    IF len = 0
    THEN [panic |-> FALSE, ret |-> NotCalled, functions |-> fns]
    ELSE LET sl == VecSlice(text_data, offset, offset + len) IN
         IF sl.panic
         THEN [panic |-> TRUE, ret |-> NotCalled, functions |-> fns]
         ELSE LET r == add_function(fns, name, text_section_address + offset, sl.data)
              IN  [panic |-> FALSE, ret |-> r.ret, functions |-> r.functions]

\* Mapping::get_function_def: the first entry of that name, <<>> for None
RECURSIVE get_function_def(_, _)
get_function_def(defs, name) ==
    IF defs = <<>> THEN <<>>
    ELSE IF Head(defs).name = <<name>> THEN <<Head(defs)>>
    ELSE get_function_def(Tail(defs), name)

\* the filter without its size test
primary_filter_any_size(sym) == sym.kind = "Text"

\* the filter of the primary pass over raw_obj.symbols()
primary_filter(sym) == sym.kind = "Text" /\ sym.size # 0

Finish(r) ==
    /\ phase' = "done"
    /\ result' = r

BuildIdle ==
    /\ ctor = "none" /\ text = "absent" /\ symbols = <<>> /\ sym_idx = 0
    /\ mapping = <<>> /\ map_idx = 1 /\ phase = "idle" /\ functions = NoFunctions
    /\ add_ret = NotCalled /\ result = Pending /\ primary = NoFunctions
    /\ proc_seen = {} /\ proc_nz = {}
ApiIdle == api_args = <<>>
DiffIdle ==
    /\ diff_pc = "idle" /\ self_data = <<>> /\ other_data = <<>> /\ diff_ret = <<>>
CmdIdle ==
    /\ cmd_pc = "idle" /\ cmd = "none" /\ original = NoFunctions /\ reimpl = NoFunctions
    /\ stats = <<>> /\ pending = {} /\ global_match = F32Zero
    /\ global_raw_diff = <<>>
FmtIdle == fmt_pc = "idle" /\ fmt_in = <<>> /\ fmt_out = <<>>

\* a constructor is called on an object file
Init ==
    /\ ctor \in {"from_object", "from_object_with_pdb", "from_object_with_mapping"}
    /\ text \in {"absent", "present", "unreadable"}
    /\ symbols \in SeqsUpTo(ObjSymbols, MaxSymbols)
    /\ sym_idx = 1
    /\ mapping = <<>> /\ map_idx = 1
    /\ phase = "primary"
    /\ functions = NoFunctions
    /\ add_ret = NotCalled
    /\ result = Pending
    /\ primary = NoFunctions
    /\ proc_seen = {} /\ proc_nz = {}
    /\ ApiIdle /\ DiffIdle /\ CmdIdle /\ FmtIdle

\* from_object, l.171: no section is named .text, the table stays empty; the
\* callers' own `if let Some(text_sec)` (l.229, l.298) fails alike
FromObjectNoText ==
    /\ phase = "primary" /\ text = "absent"
    /\ Finish(Ok)
    /\ UNCHANGED <<ctor, text, symbols, sym_idx, mapping, map_idx, functions, add_ret,
                   primary, proc_seen, proc_nz>>
    /\ UNCHANGED <<api_args, diff_vars, cmd_vars, fmt_vars>>

\* from_object, l.173: text_sec.data()? fails
FromObjectDataError ==
    /\ phase = "primary" /\ text = "unreadable"
    /\ Finish(ObjectError)
    /\ UNCHANGED <<ctor, text, symbols, sym_idx, mapping, map_idx, functions, add_ret,
                   primary, proc_seen, proc_nz>>
    /\ UNCHANGED <<api_args, diff_vars, cmd_vars, fmt_vars>>

\* from_object, l.175-191: one iteration of the loop over the symbols
PrimarySymbol ==
    /\ phase = "primary" /\ text = "present" /\ sym_idx <= Len(symbols)
    /\ LET sym == symbols[sym_idx]
           sl == slice_at(TextBase, TextData, sym.address, sym.size)
           r == add_function(functions, sym.name, sym.address, sl.data)
       IN  IF ~primary_filter(sym)
           THEN /\ sym_idx' = sym_idx + 1
                /\ UNCHANGED <<phase, result, functions, add_ret>>
           ELSE IF sl.panic
           THEN /\ Finish(Panic)
                /\ UNCHANGED <<sym_idx, functions, add_ret>>
           ELSE IF sym.size = 0
           THEN /\ sym_idx' = sym_idx + 1
                /\ UNCHANGED <<phase, result, functions, add_ret>>
           ELSE IF r.ret # Ok
           THEN /\ Finish(r.ret)
                /\ add_ret' = r.ret
                /\ UNCHANGED <<sym_idx, functions>>
           ELSE /\ functions' = r.functions
                /\ add_ret' = r.ret
                /\ sym_idx' = sym_idx + 1
                /\ UNCHANGED <<phase, result>>
    /\ UNCHANGED <<ctor, text, symbols, mapping, map_idx, primary, proc_seen, proc_nz>>
    /\ UNCHANGED <<api_args, diff_vars, cmd_vars, fmt_vars>>

\* from_object returns Ok(res), l.194, and its symbol iterator is dropped;
\* from_object_with_pdb (l.227-231) and from_object_with_mapping (l.296-300) go
\* on with their own passes
PrimaryEnd ==
    /\ phase = "primary" /\ text = "present" /\ sym_idx > Len(symbols)
    /\ IF ctor = "from_object"
       THEN /\ Finish(Ok)
            /\ UNCHANGED <<symbols, sym_idx, primary>>
       ELSE /\ phase' = IF ctor = "from_object_with_pdb" THEN "procedures" ELSE "with_mapping"
            /\ primary' = functions
            /\ symbols' = <<>>
            /\ sym_idx' = 0
            /\ UNCHANGED result
    /\ UNCHANGED <<ctor, text, mapping, map_idx, functions, add_ret, proc_seen, proc_nz>>
    /\ UNCHANGED <<api_args, diff_vars, cmd_vars, fmt_vars>>

\* from_object_with_mapping, l.302: the mapping it was given is read (the
\* argument is drawn where it is first read, here and at l.277)
MappingStart ==
    /\ phase = "with_mapping"
    /\ phase' = "mapping"
    /\ mapping' \in SeqsUpTo(FunctionDefs, MaxMapping)
    /\ UNCHANGED <<ctor, text, symbols, sym_idx, map_idx, functions, add_ret, result,
                   primary, proc_seen, proc_nz>>
    /\ UNCHANGED <<api_args, diff_vars, cmd_vars, fmt_vars>>

\* from_object_with_pdb, l.240-259: one procedure symbol of one module
PdbProcedure(sym) ==
    /\ phase = "procedures"
    /\ LET r == add_function_from_pdb(functions, TextBase, TextData,
                                      sym.name, sym.offset, sym.len)
       IN  IF r.panic
           THEN /\ Finish(Panic)
                /\ UNCHANGED <<functions, add_ret>>
           ELSE /\ functions' = r.functions
                /\ add_ret' = r.ret
                /\ UNCHANGED <<phase, result>>
    /\ proc_seen' = proc_seen \cup {sym.name}
    /\ proc_nz' = IF sym.len # 0 THEN proc_nz \cup {sym.name} ELSE proc_nz
    /\ UNCHANGED <<ctor, text, symbols, sym_idx, mapping, map_idx, primary>>
    /\ UNCHANGED <<api_args, diff_vars, cmd_vars, fmt_vars>>

\* from_object_with_pdb, l.236 and l.264: the modules are exhausted
PdbProceduresEnd ==
    /\ phase = "procedures"
    /\ phase' = "publics"
    /\ mapping' \in SeqsUpTo(PdbFunctionDefs, MaxMapping)
    /\ add_ret' = NotCalled
    /\ UNCHANGED <<ctor, text, symbols, sym_idx, map_idx, functions, result,
                   primary, proc_seen, proc_nz>>
    /\ UNCHANGED <<api_args, diff_vars, cmd_vars, fmt_vars>>

\* from_object_with_pdb, l.267-286: one symbol of the global symbol table
PdbPublic(sym) ==
    /\ phase = "publics"
    /\ LET def == get_function_def(mapping, sym.name)
           len == IF def = <<>> THEN 0 ELSE def[1].size
           r == add_function_from_pdb(functions, TextBase, TextData,
                                      sym.name, sym.offset, len)
       IN  IF ~sym.function
           THEN UNCHANGED <<phase, result, functions, add_ret>>
           ELSE IF r.panic
           THEN /\ Finish(Panic)
                /\ UNCHANGED <<functions, add_ret>>
           ELSE /\ functions' = r.functions
                /\ add_ret' = r.ret
                /\ UNCHANGED <<phase, result>>
    /\ UNCHANGED <<ctor, text, symbols, sym_idx, mapping, map_idx, primary, proc_seen,
                   proc_nz>>
    /\ UNCHANGED <<api_args, diff_vars, cmd_vars, fmt_vars>>

\* from_object_with_pdb, l.267 and l.289: the symbol table is exhausted
PdbPublicsEnd ==
    /\ phase = "publics"
    /\ Finish(Ok)
    /\ UNCHANGED <<ctor, text, symbols, sym_idx, mapping, map_idx, functions, add_ret,
                   primary, proc_seen, proc_nz>>
    /\ UNCHANGED <<api_args, diff_vars, cmd_vars, fmt_vars>>

\* from_object_with_pdb: one of the `?` on the PDB reader fails (l.233-240, l.264-267)
PdbFail ==
    /\ phase \in {"procedures", "publics"}
    /\ Finish(PdbError)
    /\ UNCHANGED <<ctor, text, symbols, sym_idx, mapping, map_idx, functions, add_ret,
                   primary, proc_seen, proc_nz>>
    /\ UNCHANGED <<api_args, diff_vars, cmd_vars, fmt_vars>>

\* from_object_with_mapping, l.303-313: one entry of the mapping
MappingEntry ==
    /\ phase = "mapping" /\ map_idx <= Len(mapping)
    /\ LET function == mapping[map_idx]
           sl == slice_at(TextBase, TextData, function.address, function.size)
           r == add_function(functions, function.name[1], function.address, sl.data)
       IN  IF function.name = <<>>
           THEN /\ map_idx' = map_idx + 1
                /\ UNCHANGED <<phase, result, functions, add_ret>>
           ELSE IF sl.panic
           THEN /\ Finish(Panic)
                /\ UNCHANGED <<map_idx, functions, add_ret>>
           ELSE /\ functions' = r.functions
                /\ add_ret' = r.ret
                /\ map_idx' = map_idx + 1
                /\ UNCHANGED <<phase, result>>
    /\ UNCHANGED <<ctor, text, symbols, sym_idx, mapping, primary, proc_seen, proc_nz>>
    /\ UNCHANGED <<api_args, diff_vars, cmd_vars, fmt_vars>>

\* from_object_with_mapping, l.317: the mapping is exhausted
MappingEnd ==
    /\ phase = "mapping" /\ map_idx > Len(mapping)
    /\ Finish(Ok)
    /\ UNCHANGED <<ctor, text, symbols, sym_idx, mapping, map_idx, functions, add_ret,
                   primary, proc_seen, proc_nz>>
    /\ UNCHANGED <<api_args, diff_vars, cmd_vars, fmt_vars>>

Next ==
    \/ FromObjectNoText
    \/ FromObjectDataError
    \/ PrimarySymbol
    \/ PrimaryEnd
    \/ \E sym \in ProcedureSymbols : PdbProcedure(sym)
    \/ PdbProceduresEnd
    \/ \E sym \in PublicSymbols : PdbPublic(sym)
    \/ PdbPublicsEnd
    \/ PdbFail
    \/ MappingStart
    \/ MappingEntry
    \/ MappingEnd

Spec == Init /\ [][Next]_vars

(***************************************************************************)
(* Executable::add_function called by a user of the library on a table.    *)
(***************************************************************************)
ApiData == {<<>>} \cup VecsOver({1, 2}, {1})

InitApi ==
    /\ ctor = "none" /\ text = "absent" /\ symbols = <<>> /\ sym_idx = 0
    /\ mapping = <<>> /\ map_idx = 1 /\ phase = "idle" /\ functions = NoFunctions
    /\ add_ret = NotCalled /\ result = Pending /\ primary = NoFunctions
    /\ proc_seen = {} /\ proc_nz = {}
    /\ ApiIdle /\ DiffIdle /\ CmdIdle /\ FmtIdle

ApiAddFunction(name, address, data) ==
    /\ phase = "idle"
    /\ LET r == add_function(functions, name, address, data)
       IN  /\ functions' = r.functions
           /\ add_ret' = r.ret
    /\ api_args' = <<name, address, data>>
    /\ UNCHANGED <<ctor, text, symbols, sym_idx, mapping, map_idx, phase, result,
                   primary, proc_seen, proc_nz>>
    /\ UNCHANGED <<diff_vars, cmd_vars, fmt_vars>>

NextApi ==
    \E name \in Names, address \in Addresses, data \in ApiData :
        ApiAddFunction(name, address, data)

SpecApi == InitApi /\ [][NextApi]_vars

(***************************************************************************)
(* Function::compute_raw_diff.                                             *)
(***************************************************************************)
MaxLen == 3
Bytes == {1, 2}

Min(a, b) == IF a <= b THEN a ELSE b

\* the run-length encoding of a sequence of bytes
RECURSIVE Encode(_)
Encode(bs) ==
    IF bs = <<>> THEN <<>>
    ELSE LET rest == Encode(Tail(bs)) IN
         IF rest # <<>> /\ Head(rest).byte = Head(bs)
         THEN <<Run(Head(bs), Head(rest).count + 1)>> \o Tail(rest)
         ELSE <<Run(Head(bs), 1)>> \o rest

\* every vector of at most MaxLen bytes
SmallVecs == {Encode(bs) : bs \in SeqsUpTo(Bytes, MaxLen)}
\* vectors around the 2^24 bytes up to which `as f32` is exact
LargeVecs == VecsOver(Bytes, {1, F32Hi - 1, F32Hi, F32Hi + 1})

\* the loop counting every position as a match that other does not have
RECURSIVE matching_count_past_end(_, _)
matching_count_past_end(a, b) ==
    IF a = <<>> THEN 0
    ELSE IF b = <<>> THEN VecLen(a)
    ELSE LET k == Min(Head(a).count, Head(b).count) IN
         (IF Head(a).byte = Head(b).byte THEN k ELSE 0)
         + matching_count_past_end(VecDrop(a, k), VecDrop(b, k))

\* compute_raw_diff, l.437-443: the positions idx of self.data at which
\* other.data.get(idx) is Some(b) with b equal to the byte of self
RECURSIVE matching_count(_, _)
matching_count(a, b) ==
    IF a = <<>> \/ b = <<>> THEN 0
    ELSE LET k == Min(Head(a).count, Head(b).count) IN
         (IF Head(a).byte = Head(b).byte THEN k ELSE 0)
         + matching_count(VecDrop(a, k), VecDrop(b, k))

\* compute_raw_diff without its assertion
compute_raw_diff_unchecked(a, b) ==
    [panic |-> FALSE,
     value |-> F32Mul100(F32Div(F32FromNat(matching_count(a, b)), F32FromNat(VecLen(a))))]

\* Function::compute_raw_diff on self.data and other.data: the f32 returned, or
\* the panic of the assertion
compute_raw_diff(a, b) ==
    LET expected_function_size == VecLen(a)
        score == F32Mul100(F32Div(F32FromNat(matching_count(a, b)),
                                  F32FromNat(expected_function_size)))
    IN  IF score # F32Hundred \/ expected_function_size = VecLen(b)
        THEN [panic |-> FALSE, value |-> score]
        ELSE [panic |-> TRUE, value |-> F32NaN]

InitDiffOn(vecs) ==
    /\ BuildIdle /\ ApiIdle /\ CmdIdle /\ FmtIdle
    /\ diff_pc = "call"
    /\ self_data \in vecs
    /\ other_data \in vecs
    /\ diff_ret = <<>>

InitDiff == InitDiffOn(SmallVecs)
InitDiffAll == InitDiffOn(SmallVecs \cup LargeVecs)

ComputeRawDiff ==
    /\ diff_pc = "call"
    /\ LET r == compute_raw_diff(self_data, other_data)
       IN  /\ diff_pc' = IF r.panic THEN "panicked" ELSE "returned"
           /\ diff_ret' = IF r.panic THEN <<>> ELSE <<r.value>>
    /\ UNCHANGED <<self_data, other_data>>
    /\ UNCHANGED <<build_vars, api_args, cmd_vars, fmt_vars>>

NextDiff == ComputeRawDiff

SpecDiff == InitDiff /\ [][NextDiff]_vars
SpecDiffAll == InitDiffAll /\ [][NextDiff]_vars

(***************************************************************************)
(* Executable::generate_stats and the aggregate of the stats and badge     *)
(* commands.                                                               *)
(***************************************************************************)
StatNames == {"f", "g", "h"}
OriginalData == {<<>>, Encode(<<1>>), Encode(<<1, 2>>), Encode(<<1, 2, 1>>)}
ReimplData == {Encode(<<1>>), Encode(<<2>>), Encode(<<1, 2>>)}

Executables(data) ==
    UNION {[S -> data] : S \in SUBSET StatNames}
TableOf(d) == [n \in DOMAIN d |-> Function(n, TextBase, d[n])]

\* get_function_stat scoring a function that other lacks with 0.0
get_function_stat_zero(self, other, name) ==
    IF name \in DOMAIN self /\ name \in DOMAIN other
    THEN LET d == compute_raw_diff(self[name].data, other[name].data)
         IN  [panic |-> d.panic, value |-> <<d.value>>]
    ELSE [panic |-> FALSE, value |-> <<F32Zero>>]

\* Executable::get_function_stat: <<>> for None, <<score>> for Some(score)
get_function_stat(self, other, name) ==
    IF name \in DOMAIN self /\ name \in DOMAIN other
    THEN LET d == compute_raw_diff(self[name].data, other[name].data)
         IN  [panic |-> d.panic, value |-> <<d.value>>]
    ELSE [panic |-> FALSE, value |-> <<>>]

\* Executable::generate_stats
generate_stats(self, other) ==
    [panic |-> \E name \in DOMAIN self : get_function_stat(self, other, name).panic,
     res |-> [name \in DOMAIN self |-> get_function_stat(self, other, name).value]]

InitCmd ==
    /\ BuildIdle /\ ApiIdle /\ DiffIdle /\ FmtIdle
    /\ cmd_pc = "start"
    /\ cmd = "none"
    /\ original \in {TableOf(d) : d \in Executables(OriginalData)}
    /\ reimpl \in {TableOf(d) : d \in Executables(ReimplData)}
    /\ stats = <<>>
    /\ pending = {}
    /\ global_match = F32Zero
    /\ global_raw_diff = <<>>

\* handle_stats_report l.210-213, handle_badge l.263-265: generate_stats is called
CmdGenerateStats(c) ==
    /\ cmd_pc = "start"
    /\ cmd' = c
    /\ LET r == generate_stats(original, reimpl)
       IN  IF r.panic
           THEN /\ cmd_pc' = "panicked"
                /\ UNCHANGED <<stats, pending>>
           ELSE /\ cmd_pc' = "sum"
                /\ stats' = r.res
                /\ pending' = DOMAIN r.res
    /\ UNCHANGED <<original, reimpl, global_match, global_raw_diff>>
    /\ UNCHANGED <<build_vars, api_args, diff_vars, fmt_vars>>

\* handle_stats_report l.215-221, handle_badge l.265-267: one entry of the map,
\* in the order the HashMap yields them
CmdSum(name) ==
    /\ cmd_pc = "sum"
    /\ name \in pending
    /\ global_match' =
          IF cmd = "stats"
          THEN (IF stats[name] # <<>> THEN F32Add(global_match, stats[name][1])
                ELSE global_match)
          ELSE F32Add(global_match, IF stats[name] # <<>> THEN stats[name][1] ELSE F32Zero)
    /\ pending' = pending \ {name}
    /\ UNCHANGED <<cmd_pc, cmd, original, reimpl, stats, global_raw_diff>>
    /\ UNCHANGED <<build_vars, api_args, diff_vars, fmt_vars>>

\* the aggregate divided by the number of functions that have a score
CmdAggregateOverScored ==
    /\ cmd_pc = "sum"
    /\ pending = {}
    /\ global_raw_diff' =
          <<F32Div(global_match,
                   F32FromNat(Cardinality({n \in DOMAIN stats : stats[n] # <<>>})))>>
    /\ cmd_pc' = "done"
    /\ UNCHANGED <<cmd, original, reimpl, stats, pending, global_match>>
    /\ UNCHANGED <<build_vars, api_args, diff_vars, fmt_vars>>

\* handle_stats_report l.224, handle_badge l.269
CmdAggregate ==
    /\ cmd_pc = "sum"
    /\ pending = {}
    /\ global_raw_diff' =
          <<F32Div(global_match, F32FromNat(functions_count(original)))>>
    /\ cmd_pc' = "done"
    /\ UNCHANGED <<cmd, original, reimpl, stats, pending, global_match>>
    /\ UNCHANGED <<build_vars, api_args, diff_vars, fmt_vars>>

NextCmd ==
    \/ \E c \in {"stats", "badge"} : CmdGenerateStats(c)
    \/ \E name \in StatNames : CmdSum(name)
    \/ CmdAggregate

SpecCmd == InitCmd /\ [][NextCmd]_vars

(***************************************************************************)
(* Function::format_instruction.  A usize or an i64 (of a 64-bit target) is *)
(* kept as its 64 bits in four limbs, the lowest first; an i32 as two.     *)
(***************************************************************************)
LimbBits == 16
Limb == 2 ^ LimbBits

\* the wrapping sum of two words of one width
RECURSIVE AddLimbs(_, _, _)
AddLimbs(a, b, carry) ==
    IF a = <<>> THEN <<>>
    ELSE LET s == Head(a) + Head(b) + carry
         IN  <<s % Limb>> \o AddLimbs(Tail(a), Tail(b), s \div Limb)

\* the sign bit of a word read as a signed integer
Negative(w) == w[Len(w)] >= Limb \div 2

\* `a + b` on signed integers: with overflow checks (a debug build) an overflow
\* panics, without them (a release build) the sum wraps
SignedAdd(a, b, overflow_checks) ==
    LET sum == AddLimbs(a, b, 0) IN
    IF overflow_checks /\ Negative(a) = Negative(b) /\ Negative(sum) # Negative(a)
    THEN [panic |-> TRUE, value |-> <<>>]
    ELSE [panic |-> FALSE, value |-> sum]

\* `x as i32` of a usize or an i64: the low 32 bits
as_i32(w) == SubSeq(w, 1, 2)

\* `x as usize` of an i32: the sign is extended to the 64 bits
i32_as_usize(w) ==
    w \o (IF Negative(w) THEN <<Limb - 1, Limb - 1>> ELSE <<0, 0>>)

\* format_instruction, l.365-374
target_address(address, immediate, force_address_zero, is_32bit, overflow_checks) ==
    IF force_address_zero
    THEN IF is_32bit
         THEN LET r == SignedAdd(as_i32(address), as_i32(immediate), overflow_checks)
              IN  [panic |-> r.panic,
                   value |-> IF r.panic THEN <<>> ELSE i32_as_usize(r.value)]
         ELSE SignedAdd(address, immediate, overflow_checks)
    ELSE [panic |-> FALSE, value |-> immediate]

\* Executable::get_function_by_address: the names of the functions at that
\* address, of which values().find yields the first in the HashMap's order
get_function_by_address(fns, address) ==
    {n \in DOMAIN fns : fns[n].address = address}

\* the line of an instruction without name resolution, l.389-398
raw_line(mnemonic, op_str) ==
    IF mnemonic = <<>> THEN <<>> ELSE <<mnemonic[1], " ">> \o op_str \o <<"\n">>

\* l.353-363: a relative call with one operand, an immediate
is_relative_call(groups, ops) ==
    /\ "call" \in groups /\ "branch_relative" \in groups
    /\ Len(ops) = 1 /\ ops[1].type = "Imm"

\* the addresses of self, the immediates and the addresses of the functions
FmtSelfAddresses ==
    {<<4096, 0, 0, 0>>,                \* 0x1000
     <<65520, 32767, 0, 0>>,           \* 0x7FFFFFF0
     <<0, 32768, 0, 0>>}               \* 0x80000000
FmtImmediates ==
    {<<16, 0, 0, 0>>,                  \* 0x10
     <<32, 0, 0, 0>>,                  \* 0x20
     <<4112, 0, 0, 0>>,                \* 0x1010
     <<65520, 65535, 65535, 65535>>}   \* -0x10
FmtFunctionAddresses ==
    {<<4112, 0, 0, 0>>,                \* 0x1010
     <<16, 32768, 0, 0>>,              \* 0x80000010
     <<16, 32768, 65535, 65535>>}      \* 0xFFFFFFFF80000010
FmtGroups == SUBSET {"call", "branch_relative", "not64bitmode"}
FmtOperands ==
    {<<>>, <<[type |-> "Reg", imm |-> <<>>]>>}
    \cup {<<[type |-> "Imm", imm |-> i]>> : i \in FmtImmediates}
    \cup {<<[type |-> "Imm", imm |-> <<16, 0, 0, 0>>], [type |-> "Reg", imm |-> <<>>]>>}
FmtExecutables ==
    UNION {[S -> FmtFunctionAddresses] : S \in SUBSET Names}

InitFmt ==
    /\ BuildIdle /\ ApiIdle /\ DiffIdle /\ CmdIdle
    /\ fmt_pc = "call"
    /\ fmt_in \in
          [address : FmtSelfAddresses,
           executable : {[n \in DOMAIN d |-> Function(n, d[n], <<Run(1, 1)>>)] :
                            d \in FmtExecutables},
           force_address_zero : BOOLEAN,
           resolve_names : BOOLEAN,
           groups : FmtGroups,
           ops : FmtOperands,
           mnemonic : {<<>>, <<"call">>},
           op_str : {<<>>, <<"0x10">>},
           overflow_checks : BOOLEAN]
    /\ fmt_out = <<>>

\* Function::format_instruction, l.329-401
FormatInstruction ==
    /\ fmt_pc = "call"
    /\ LET i == fmt_in
           resolve == i.resolve_names /\ is_relative_call(i.groups, i.ops)
           is_32bit == "not64bitmode" \notin i.groups
           target == target_address(i.address, i.ops[1].imm, i.force_address_zero,
                                    is_32bit, i.overflow_checks)
           found == get_function_by_address(i.executable, target.value)
       IN  IF resolve /\ target.panic
           THEN /\ fmt_pc' = "panicked"
                /\ fmt_out' = <<>>
           ELSE IF resolve /\ found # {} /\ i.mnemonic # <<>>
           THEN /\ fmt_pc' = "returned"
                /\ \E target_function \in found :
                      fmt_out' = <<i.mnemonic[1], " ", i.executable[target_function].name, "\n">>
           ELSE /\ fmt_pc' = "returned"
                /\ fmt_out' = raw_line(i.mnemonic, i.op_str)
    /\ UNCHANGED fmt_in
    /\ UNCHANGED <<build_vars, api_args, diff_vars, cmd_vars>>

NextFmt == FormatInstruction

SpecFmt == InitFmt /\ [][NextFmt]_vars

(***************************************************************************)
(* Claims about the table and its construction.                            *)
(***************************************************************************)

\* C1: add_function(name, address, data) on a table without name returns Ok and
\* leaves the previous entries plus name -> Function{name, address, data}; on a
\* table with name it returns FunctionNameConflict{name} and leaves the table,
\* every entry and functions_count, as it was.
C1_AddFunction ==
    [][api_args' # <<>> =>
        LET name == api_args'[1]
            address == api_args'[2]
            data == api_args'[3]
        IN  IF name \in DOMAIN functions
            THEN /\ add_ret' = FunctionNameConflict(name)
                 /\ DOMAIN functions' = DOMAIN functions
                 /\ \A n \in DOMAIN functions : functions'[n] = functions[n]
                 /\ functions_count(functions') = functions_count(functions)
            ELSE /\ add_ret' = Ok
                 /\ DOMAIN functions' = DOMAIN functions \cup {name}
                 /\ functions'[name].name = name
                 /\ functions'[name].address = address
                 /\ functions'[name].data = data
                 /\ \A n \in DOMAIN functions : functions'[n] = functions[n]
                 /\ functions_count(functions') = functions_count(functions) + 1
    ]_vars

\* a call that met a conflict: the entry of "f" still differs from the arguments
C1_Witness ==
    /\ api_args # <<>>
    /\ api_args[1] = "f"
    /\ add_ret = FunctionNameConflict("f")
    /\ "g" \in DOMAIN functions
    /\ functions["f"].address # api_args[2]
    /\ functions["f"].data # api_args[3]

\* the range [address, address + size) lies within the .text section
InText(address, size) == address >= TextBase /\ address - TextBase + size <= TextLen

\* the primary pass holds its iterator: from_object is running or has ended the
\* construction
InPrimary == sym_idx >= 1 /\ text = "present"

\* the additive passes
Additive == phase \in {"procedures", "publics", "with_mapping", "mapping"}

\* C2 as claimed, in its last part: a name that a PDB procedure supplied keeps
\* its entry when a PDB public symbol supplies it again, so no public symbol of
\* such a name changes the table.
C2_ProcedureBeforePublic ==
    [][\A sym \in PublicSymbols :
          (PdbPublic(sym) /\ sym.name \in proc_seen) => functions' = functions]_vars

\* C2, amended: in the additive passes an insertion under a name that is in the
\* table returns the conflict to the pass, which goes on with the table as it
\* was; no step of an additive pass changes or removes an entry, so that the
\* entries of the primary pass are those of the Executable returned; a procedure
\* of nonzero length whose name is new is entered with its own address and
\* bytes, and once a procedure of nonzero length supplied a name, no public
\* symbol of that name changes the table.
C2_KeepsFirst ==
    /\ [][/\ Additive =>
               /\ DOMAIN functions \subseteq DOMAIN functions'
               /\ \A n \in DOMAIN functions : functions'[n] = functions[n]
          /\ \A sym \in ProcedureSymbols :
               (PdbProcedure(sym) /\ sym.len # 0 /\ InText(TextBase + sym.offset, sym.len))
               => IF sym.name \in DOMAIN functions
                  THEN /\ add_ret' = FunctionNameConflict(sym.name)
                       /\ functions' = functions
                       /\ phase' = phase /\ result' = Pending
                  ELSE /\ add_ret' = Ok
                       /\ functions'[sym.name] =
                            Function(sym.name, TextBase + sym.offset,
                                     SubSeq(TextData, sym.offset + 1, sym.offset + sym.len))
          /\ \A sym \in PublicSymbols :
               (PdbPublic(sym) /\ sym.name \in proc_nz) => functions' = functions
          /\ (MappingEntry /\ mapping[map_idx].name # <<>>
                /\ mapping[map_idx].name[1] \in DOMAIN functions
                /\ InText(mapping[map_idx].address, mapping[map_idx].size))
               => /\ add_ret' = FunctionNameConflict(mapping[map_idx].name[1])
                  /\ functions' = functions
                  /\ phase' = phase /\ result' = Pending
         ]_vars
    /\ [](/\ (phase = "done" /\ result = Ok /\ ctor # "from_object")
               => \A n \in DOMAIN primary :
                     n \in DOMAIN functions /\ functions[n] = primary[n]
          /\ (ctor = "from_object_with_pdb" /\ result \in {Pending, Ok, PdbError})
               => proc_nz \subseteq DOMAIN functions)

\* from_object_with_pdb returned a table in which "f" is the primary symbol's and
\* "g" the procedure's, the last public symbol having met a conflict
C2_Witness ==
    /\ phase = "done" /\ result = Ok /\ ctor = "from_object_with_pdb"
    /\ "f" \in DOMAIN primary
    /\ proc_nz = {"f", "g"}
    /\ "g" \in DOMAIN functions /\ "g" \notin DOMAIN primary
    /\ add_ret = FunctionNameConflict("g")
    /\ get_function_def(mapping, "g") # <<>>
    /\ get_function_def(mapping, "g")[1].size # 0

\* the index of the first text symbol of nonzero size whose name an earlier one
\* bears, 0 if there is none
IsRepeat(j) ==
    /\ symbols[j].kind = "Text" /\ symbols[j].size # 0
    /\ \E i \in 1..(j - 1) :
          /\ symbols[i].kind = "Text" /\ symbols[i].size # 0
          /\ symbols[i].name = symbols[j].name
FirstRepeat ==
    IF \E j \in 1..Len(symbols) : IsRepeat(j)
    THEN CHOOSE j \in 1..Len(symbols) : IsRepeat(j) /\ \A k \in 1..(j - 1) : ~IsRepeat(k)
    ELSE 0

\* C3 as claimed: an object with two text symbols of nonzero size and one name
\* makes every constructor fail with FunctionNameConflict for a repeated name.
C3_DuplicateAlwaysConflict ==
    (phase = "done" /\ sym_idx >= 1 /\ FirstRepeat # 0)
    => /\ result.kind = "FunctionNameConflict"
       /\ \E j \in 1..Len(symbols) : IsRepeat(j) /\ symbols[j].name = result.function_name

\* C3, amended: when the object has a readable .text section and every text symbol
\* of nonzero size up to the first repeated one lies within it, each of the three
\* constructors fails with FunctionNameConflict for the first repeated name, and
\* the table was not touched by any later pass.
C3_DuplicateConflict ==
    (/\ phase = "done" /\ InPrimary /\ FirstRepeat # 0
     /\ \A i \in 1..FirstRepeat :
           (symbols[i].kind = "Text" /\ symbols[i].size # 0)
           => InText(symbols[i].address, symbols[i].size))
    => /\ result = FunctionNameConflict(symbols[FirstRepeat].name)
       /\ sym_idx = FirstRepeat
       /\ primary = NoFunctions /\ mapping = <<>> /\ proc_seen = {}

\* from_object_with_pdb gave up on the second "g" of the object
C3_Witness ==
    /\ phase = "done" /\ ctor = "from_object_with_pdb" /\ InPrimary
    /\ FirstRepeat = 2
    /\ symbols[1].address # symbols[2].address
    /\ result = FunctionNameConflict("g")

\* C4: every Function of an Executable that a constructor returned has data.
C4_NonEmptyData ==
    (phase = "done" /\ result = Ok)
    => \A n \in DOMAIN functions : VecLen(functions[n].data) > 0

\* the symbols of the primary pass that passed so far, by name
Passed(name) ==
    {i \in 1..(sym_idx - 1) :
        symbols[i].name = name /\ symbols[i].kind = "Text" /\ symbols[i].size # 0}

\* C10: in the primary pass a text symbol of size 0 is skipped: the table holds
\* exactly the text symbols of nonzero size iterated so far, each with its own
\* address and bytes (so that functions_count() counts no symbol of size 0),
\* and when the pass ends the construction with an error or a panic, the symbol
\* it stopped at has a nonzero size.
C10_ZeroSizeSkipped ==
    InPrimary =>
        /\ DOMAIN functions = {n \in Names : Passed(n) # {}}
        /\ \A n \in DOMAIN functions :
              \E i \in Passed(n) :
                  functions[n] =
                      Function(n, symbols[i].address,
                               SubSeq(TextData, symbols[i].address - TextBase + 1,
                                      symbols[i].address - TextBase + symbols[i].size))
        /\ functions_count(functions) <= Cardinality({i \in 1..Len(symbols) :
                                                        symbols[i].size # 0})
        /\ (phase = "done" /\ result # Ok)
              => /\ sym_idx <= Len(symbols)
                 /\ symbols[sym_idx].size # 0

\* from_object returned "f" alone: the other symbol, a text symbol named "f" too,
\* has size 0 and an address below the section
C10_Witness ==
    /\ phase = "done" /\ result = Ok /\ ctor = "from_object" /\ InPrimary
    /\ Len(symbols) = 2
    /\ symbols[1].kind = "Text" /\ symbols[1].size = 0
    /\ symbols[1].address < TextBase /\ symbols[1].name = "f"
    /\ symbols[2].kind = "Text" /\ symbols[2].name = "f"
    /\ functions_count(functions) = 1

\* a step that ends the construction by a panic, the table left as it was
Fatal == phase' = "done" /\ result' = Panic /\ functions' = functions

\* the bytes of a Function are those of the .text section at its address
ExactBytes(f) ==
    /\ InText(f.address, VecLen(f.data))
    /\ f.data = VecTake(VecDrop(TextData, f.address - TextBase), VecLen(f.data))

\* C11: in every pass, a range that the pass extracts (of a text symbol of
\* nonzero size, of a PDB procedure of nonzero length, of a PDB public function
\* symbol that the mapping gives a nonzero size, of a named mapping entry of any
\* size) and that ends past the .text section or starts below its base makes the
\* constructor panic: the entry is not skipped, the table is not touched and no
\* Executable is returned.  Every Function of the table has the section's bytes
\* at its address, in full, and a constructor that returned Ok met no such range.
C11_OutOfBoundsFatal ==
    /\ [][/\ (PrimarySymbol /\ symbols[sym_idx].kind = "Text" /\ symbols[sym_idx].size # 0
                /\ ~InText(symbols[sym_idx].address, symbols[sym_idx].size))
               => Fatal
          /\ \A sym \in ProcedureSymbols :
               (PdbProcedure(sym) /\ sym.len # 0 /\ ~InText(TextBase + sym.offset, sym.len))
               => Fatal
          /\ \A sym \in PublicSymbols :
               (/\ PdbPublic(sym) /\ sym.function
                /\ get_function_def(mapping, sym.name) # <<>>
                /\ get_function_def(mapping, sym.name)[1].size # 0
                /\ ~InText(TextBase + sym.offset, get_function_def(mapping, sym.name)[1].size))
               => Fatal
          /\ (MappingEntry /\ mapping[map_idx].name # <<>>
                /\ ~InText(mapping[map_idx].address, mapping[map_idx].size))
               => Fatal
         ]_vars
    /\ [](/\ \A n \in DOMAIN functions : ExactBytes(functions[n])
          /\ (phase = "done" /\ result = Ok /\ InPrimary)
               => \A i \in 1..Len(symbols) :
                     (symbols[i].kind = "Text" /\ symbols[i].size # 0)
                     => InText(symbols[i].address, symbols[i].size)
          /\ (phase = "done" /\ result = Ok /\ ctor = "from_object_with_mapping")
               => \A i \in 1..Len(mapping) :
                     mapping[i].name # <<>> => InText(mapping[i].address, mapping[i].size)
          /\ result = Panic => phase = "done")

\* from_object_with_mapping panicked at its second entry, whose range starts in
\* the section and ends past it, after the first entry was inserted
C11_Witness ==
    /\ phase = "done" /\ result = Panic /\ ctor = "from_object_with_mapping"
    /\ map_idx = 2 /\ Len(mapping) = 2
    /\ mapping[2].name = <<"g">>
    /\ mapping[2].address > TextBase
    /\ mapping[2].address - TextBase < TextLen
    /\ mapping[2].address - TextBase + mapping[2].size > TextLen
    /\ DOMAIN functions = {"f"}

(***************************************************************************)
(* Claims about the matcher.                                               *)
(***************************************************************************)
DiffReturned == diff_pc = "returned"
NonEmptyPair == VecLen(self_data) > 0 /\ VecLen(other_data) > 0

\* C5: when a.compute_raw_diff(b) returns 100.0 for functions with data, the
\* two have the same length.
C5_HundredImpliesSameLength ==
    (DiffReturned /\ NonEmptyPair /\ diff_ret = <<F32Hundred>>)
    => VecLen(self_data) = VecLen(other_data)

\* 100.0 was returned for two functions of more than one byte
C5_Witness ==
    /\ DiffReturned /\ diff_ret = <<F32Hundred>>
    /\ VecLen(self_data) > 1
    /\ Len(self_data) > 1

\* the positions below both lengths at which the two vectors hold the same byte
Matches(a, b) ==
    {idx \in 0..(Min(VecLen(a), VecLen(b)) - 1) : VecGet(a, idx) = VecGet(b, idx)}

\* C6: with n = len(a.data) > 0 and m the number of positions below n and below
\* len(b.data) at which the bytes agree, the score that a.compute_raw_diff(b)
\* returns is (m as f32 / n as f32) * 100.0; the call returns unless m = n and
\* b is longer than a, where its assertion fails.
C6_ScoreIsPositionalMatchRate ==
    (diff_pc # "call" /\ VecLen(self_data) > 0)
    => LET n == VecLen(self_data)
           m == Cardinality(Matches(self_data, other_data))
       IN  /\ DiffReturned
              => diff_ret = <<F32Mul100(F32Div(F32FromNat(m), F32FromNat(n)))>>
           /\ DiffReturned <=> ~(m = n /\ VecLen(other_data) # n)

\* a score strictly between 0 and 100 with a shorter other, whose last byte
\* differs, so that positions of self past the end of other did not count
C6_Witness ==
    /\ DiffReturned
    /\ VecLen(self_data) = 3 /\ VecLen(other_data) = 2
    /\ Cardinality(Matches(self_data, other_data)) = 1
    /\ F32Less(F32Zero, diff_ret[1]) /\ F32Less(diff_ret[1], F32FromNat(34))
    /\ F32Less(F32FromNat(33), diff_ret[1])

\* C7: for functions of one length that differ, the score returned is strictly
\* less than 100.0.
C7_DifferentMeansBelowHundred ==
    (/\ DiffReturned
     /\ VecLen(self_data) = VecLen(other_data)
     /\ VecLen(self_data) > 0
     /\ self_data # other_data)
    => F32Less(diff_ret[1], F32Hundred)

(***************************************************************************)
(* Claims about the statistics and the aggregate.                          *)
(***************************************************************************)
StatsReturned == cmd_pc \in {"sum", "done"}

\* C8: the map generate_stats returns has exactly the names of self as keys; a
\* name maps to None exactly when other has no function of that name, and to
\* Some of the score of the two functions otherwise, Some(0.0) when no byte
\* matches.
C8_StatsPerReferenceName ==
    StatsReturned =>
        /\ DOMAIN stats = DOMAIN original
        /\ \A n \in DOMAIN stats :
              /\ stats[n] = <<>> <=> n \notin DOMAIN reimpl
              /\ n \in DOMAIN reimpl
                    => /\ Len(stats[n]) = 1
                       /\ stats[n][1] =
                             compute_raw_diff(original[n].data, reimpl[n].data).value
                       /\ (VecLen(original[n].data) > 0
                           /\ Matches(original[n].data, reimpl[n].data) = {})
                             => stats[n] = <<F32Zero>>

\* one function without a counterpart, one with no matching byte, and a function
\* of other that self does not have
C8_Witness ==
    /\ StatsReturned
    /\ "f" \in DOMAIN stats /\ stats["f"] = <<>>
    /\ "g" \in DOMAIN stats /\ stats["g"] = <<F32Zero>>
    /\ "h" \in DOMAIN reimpl /\ "h" \notin DOMAIN stats

\* the f32 sum of the scores of the names of a sequence, from 0.0
RECURSIVE SumInOrder(_, _)
SumInOrder(order, st) ==
    IF order = <<>> THEN F32Zero
    ELSE F32Add(SumInOrder(SubSeq(order, 1, Len(order) - 1), st),
                st[order[Len(order)]][1])

\* the orders in which the names of S can be iterated
OrdersOf(S) ==
    {o \in [1..Cardinality(S) -> S] : \A i, j \in 1..Cardinality(S) : i # j => o[i] # o[j]}

Scored == {n \in DOMAIN stats : stats[n] # <<>>}

\* C9: the aggregate that the stats and badge commands compute is the f32 sum
\* of the present scores, added in the order the map yields them, divided by
\* functions_count() of the original Executable; when every present score is
\* 100.0 it is 100 * (number of present scores) / functions_count().
C9_AggregateOverAllFunctions ==
    cmd_pc = "done" =>
        /\ Len(global_raw_diff) = 1
        /\ \E o \in OrdersOf(Scored) :
              global_raw_diff[1] =
                  F32Div(SumInOrder(o, stats), F32FromNat(Cardinality(DOMAIN original)))
        /\ (\A n \in Scored : stats[n] = <<F32Hundred>>)
              => global_raw_diff[1] =
                    F32Div(F32FromNat(100 * Cardinality(Scored)),
                           F32FromNat(Cardinality(DOMAIN original)))

\* three functions, two scoring 100.0 and one missing: the aggregate is 200/3
\* and not 100
C9_Witness ==
    /\ cmd_pc = "done" /\ cmd = "badge"
    /\ Cardinality(DOMAIN original) = 3
    /\ stats["f"] = <<F32Hundred>> /\ stats["g"] = <<>> /\ stats["h"] = <<F32Hundred>>
    /\ global_raw_diff = <<F32Div(F32FromNat(200), F32FromNat(3))>>
    /\ F32Less(global_raw_diff[1], F32FromNat(67))
    /\ F32Less(F32FromNat(66), global_raw_diff[1])

(***************************************************************************)
(* Claims about the disassembly.                                           *)
(***************************************************************************)

\* the line with the name of a function in place of the operand
named_line(mnemonic, name) == <<mnemonic[1], " ", name, "\n">>

\* C12: with resolve_names unset the raw line is emitted.  With resolve_names
\* set, for a call that is a relative branch with one operand, an immediate,
\* the target is the immediate, or with force_address_zero the sum of
\* self.address and the immediate, wrapped to 32 bits when the group
\* not64bitmode is absent and to 64 bits otherwise; the line emitted is
\* `<mnemonic> <name>` for a function at that address if there is one, and the
\* raw line if there is none.
C12_ResolvesRelativeCall ==
    fmt_pc # "call" =>
        LET i == fmt_in
            is_32bit == "not64bitmode" \notin i.groups
            target ==
                IF i.force_address_zero
                THEN IF is_32bit
                     THEN AddLimbs(as_i32(i.address), as_i32(i.ops[1].imm), 0) \o <<0, 0>>
                     ELSE AddLimbs(i.address, i.ops[1].imm, 0)
                ELSE i.ops[1].imm
            at_target == {n \in DOMAIN i.executable : i.executable[n].address = target}
        IN  /\ ~i.resolve_names
                 => fmt_pc = "returned" /\ fmt_out = raw_line(i.mnemonic, i.op_str)
            /\ (i.resolve_names /\ is_relative_call(i.groups, i.ops) /\ i.mnemonic # <<>>)
                 => /\ fmt_pc = "returned"
                    /\ IF at_target # {}
                       THEN \E n \in at_target : fmt_out = named_line(i.mnemonic, n)
                       ELSE fmt_out = raw_line(i.mnemonic, i.op_str)

\* C12 where the 32-bit sum stays below 2^31: there the line is as claimed, and
\* so it is for the 64-bit sum and for the immediate taken as the address,
\* unless the signed addition overflows in a build that checks for it.
C12_ResolvesBelowSignBit ==
    fmt_pc # "call" =>
        LET i == fmt_in
            is_32bit == "not64bitmode" \notin i.groups
            sum32 == AddLimbs(as_i32(i.address), as_i32(i.ops[1].imm), 0)
            target ==
                IF i.force_address_zero
                THEN IF is_32bit
                     THEN sum32 \o <<0, 0>>
                     ELSE AddLimbs(i.address, i.ops[1].imm, 0)
                ELSE i.ops[1].imm
            at_target == {n \in DOMAIN i.executable : i.executable[n].address = target}
        IN  /\ ~i.resolve_names
                 => fmt_pc = "returned" /\ fmt_out = raw_line(i.mnemonic, i.op_str)
            /\ (/\ i.resolve_names /\ is_relative_call(i.groups, i.ops) /\ i.mnemonic # <<>>
                /\ fmt_pc = "returned"
                /\ (i.force_address_zero /\ is_32bit) => ~Negative(sum32))
                 => IF at_target # {}
                    THEN \E n \in at_target : fmt_out = named_line(i.mnemonic, n)
                    ELSE fmt_out = raw_line(i.mnemonic, i.op_str)
            /\ (i.resolve_names /\ ~is_relative_call(i.groups, i.ops))
                 => fmt_pc = "returned" /\ fmt_out = raw_line(i.mnemonic, i.op_str)

\* a call from 0x1000 to 0x1010 was given the name of the function there
C12_ResolvedWitness ==
    /\ fmt_pc = "returned"
    /\ fmt_in.force_address_zero /\ fmt_in.resolve_names
    /\ fmt_in.address = <<4096, 0, 0, 0>>
    /\ fmt_out = <<"call", " ", "g", "\n">>
    /\ fmt_in.executable["g"].address = <<4112, 0, 0, 0>>

(***************************************************************************)
(* Claims about the assertion of the matcher.                              *)
(***************************************************************************)

\* C13: for two Executables whose functions all have data, generate_stats
\* returns its map: the assertion of compute_raw_diff fails for no pair of
\* functions of one name, a self that is a prefix of a longer other included.
C13_StatsAlwaysComplete ==
    (/\ cmd_pc # "start"
     /\ \A n \in DOMAIN original : VecLen(original[n].data) > 0
     /\ \A n \in DOMAIN reimpl : VecLen(reimpl[n].data) > 0)
    => /\ cmd_pc # "panicked"
       /\ DOMAIN stats = DOMAIN original
====
